---- MODULE Spec2Model ----
(***************************************************************************)
(* A model of the kvs crate: the log-structured engine KvStore             *)
(* (src/kvs/src/engines/kv.rs) and the request/response front end          *)
(* (src/kvs/src/server.rs, src/kvs/src/client.rs).                         *)
(*                                                                         *)
(* A log file is a sequence of pieces.  A piece is a BSON document of a    *)
(* Command (complete, or cut short after n bytes) or the one byte 0x0A     *)
(* that set() appends with writeln!.  Every piece carries its byte count,  *)
(* so offsets, lengths and the uncompacted counter are the code's byte     *)
(* arithmetic.  The facts about the bytes of a document that load() reads  *)
(* (is there a 0x0A byte inside it, is it valid UTF-8) are computed from   *)
(* the four little-endian length fields of the document.                   *)
(*                                                                         *)
(* bson::from_slice and Document::from_reader decode the document at the   *)
(* start of their input and ignore what follows it: load() hands           *)
(* from_slice every Set record together with its trailing 0x0A.            *)
(***************************************************************************)
EXTENDS Integers, Sequences, FiniteSets, TLC

\* ------------------------------------------------------------------ bounds

\* Engine calls (set, get, remove, compact) in one behaviour.
MaxOps == 3

\* Largest generation a behaviour may create.
MaxGen == 4

\* Records in a log file found at recovery.
MaxRecords == 3

\* Connections clients make to one server.
MaxConns == 3

\* ------------------------------------------------------------ inputs

\* Keys in the order BTreeMap<String, _> iterates them.
KeySeq == <<"a", "b">>

Keys == {KeySeq[i] : i \in 1..Len(KeySeq)}

BigValue == "big"

HalfValue == "half"

Values == {"1", "2", BigValue, HalfValue}

NoValue == "-"

COMPACTION_THRESHOLD == 1024 * 1024

\* Byte length of the long value: with a one-byte key its Set record (38
\* bytes around the value) and the trailing newline take one byte more than
\* half of COMPACTION_THRESHOLD, so two stale copies exceed the threshold.
BigLen == (COMPACTION_THRESHOLD \div 2) - 38

\* Byte length of the value whose Set record and newline take exactly half
\* of COMPACTION_THRESHOLD: two stale copies equal the threshold.
HalfLen == (COMPACTION_THRESHOLD \div 2) - 39

\* Byte length of a key or value of the model.
StrLen(s) == IF s = BigValue THEN BigLen ELSE IF s = HalfValue THEN HalfLen ELSE 1

\* ------------------------------------------------------------ Command

CmdSet(key, value) == [op |-> "Set", key |-> key, value |-> value]

CmdRemove(key) == [op |-> "Remove", key |-> key, value |-> NoValue]

Commands == {CmdSet(k, v) : k \in Keys, v \in Values} \cup {CmdRemove(k) : k \in Keys}

\* ------------------------------------------- BSON layout of a Command
\* serde's externally tagged enum: {"Set": {"key": k, "value": v}} and
\* {"Remove": {"key": k}}.

\* A BSON string: int32 length, the bytes, a NUL.
BsonStringLen(s) == 4 + StrLen(s) + 1

\* An element: type byte, name, NUL, payload.
BsonElemLen(nameLen, payloadLen) == 1 + nameLen + 1 + payloadLen

\* A document: int32 length, the elements, a NUL.
BsonDocLen(elemsLen) == 4 + elemsLen + 1

InnerLen(c) ==
    IF c.op = "Set"
    THEN BsonDocLen(BsonElemLen(3, BsonStringLen(c.key)) + BsonElemLen(5, BsonStringLen(c.value)))
    ELSE BsonDocLen(BsonElemLen(3, BsonStringLen(c.key)))

\* Bytes of bson::to_vec(&cmd).
DocLen(c) ==
    IF c.op = "Set"
    THEN BsonDocLen(BsonElemLen(3, InnerLen(c)))
    ELSE BsonDocLen(BsonElemLen(6, InnerLen(c)))

\* The int32 length fields of the document, in the order they are written.
LenFields(c) ==
    IF c.op = "Set"
    THEN <<DocLen(c), InnerLen(c), StrLen(c.key) + 1, StrLen(c.value) + 1>>
    ELSE <<DocLen(c), InnerLen(c), StrLen(c.key) + 1>>

\* Little-endian bytes of an int32.
LeBytes(n) == <<n % 256, (n \div 256) % 256, (n \div 65536) % 256, (n \div 16777216) % 256>>

IsCont(b) == b >= 128 /\ b <= 191

\* Whether the bytes s, standing between ASCII bytes, are valid UTF-8
\* (what read_line requires of the line it appends to a String).
RECURSIVE Utf8Valid(_)
Utf8Valid(s) ==
    IF s = <<>> THEN TRUE
    ELSE LET b == s[1]
             n == Len(s)
         IN  IF b < 128 THEN Utf8Valid(Tail(s))
             ELSE IF b >= 194 /\ b <= 223
             THEN n >= 2 /\ IsCont(s[2]) /\ Utf8Valid(SubSeq(s, 3, n))
             ELSE IF b >= 224 /\ b <= 239
             THEN /\ n >= 3
                  /\ IsCont(s[2])
                  /\ IsCont(s[3])
                  /\ (b = 224 => s[2] >= 160)
                  /\ (b = 237 => s[2] <= 159)
                  /\ Utf8Valid(SubSeq(s, 4, n))
             ELSE IF b >= 240 /\ b <= 244
             THEN /\ n >= 4
                  /\ IsCont(s[2])
                  /\ IsCont(s[3])
                  /\ IsCont(s[4])
                  /\ (b = 240 => s[2] >= 144)
                  /\ (b = 244 => s[2] <= 143)
                  /\ Utf8Valid(SubSeq(s, 5, n))
             ELSE FALSE

\* ------------------------------------------------------------- pieces

NoCmd == [op |-> "None", key |-> NoValue, value |-> NoValue]

\* The first n bytes of the document of c; the whole document when n = DocLen(c).
DocPiece(c, n) == [t |-> "doc", cmd |-> c, n |-> n]

Doc(c) == DocPiece(c, DocLen(c))

\* The byte 0x0A.
Lf == [t |-> "lf", cmd |-> NoCmd, n |-> 1]

\* n bytes that start inside a document.
Junk(n) == [t |-> "junk", cmd |-> NoCmd, n |-> n]

IsWholeDoc(p) == p.t = "doc" /\ p.n = DocLen(p.cmd)

RECURSIVE FileLen(_)
FileLen(f) == IF f = <<>> THEN 0 ELSE f[1].n + FileLen(Tail(f))

\* Offset of piece i of f.
Offset(f, i) == FileLen(SubSeq(f, 1, i - 1))

Min(x, y) == IF x < y THEN x ELSE y

Max(x, y) == IF x > y THEN x ELSE y

\* Offsets of the length fields inside the document of c.
FieldOffsets(c) ==
    IF c.op = "Set" THEN <<0, 9, 18, 30 + StrLen(c.key)>> ELSE <<0, 12, 21>>

\* The piece holds a 0x0A byte.
PieceHasLf(p) ==
    \/ p.t = "lf"
    \/ /\ p.t = "doc"
       /\ \E i \in 1..Len(LenFields(p.cmd)) : \E j \in 1..4 :
            /\ LeBytes(LenFields(p.cmd)[i])[j] = 10
            /\ FieldOffsets(p.cmd)[i] + j - 1 < p.n

\* The bytes of the piece are valid UTF-8 (a length field cut short by the
\* end of the piece counts with the bytes of it that are there).
PieceUtf8(p) ==
    \/ p.t = "lf"
    \/ /\ p.t = "doc"
       /\ \A i \in 1..Len(LenFields(p.cmd)) :
            LET have == Min(4, p.n - FieldOffsets(p.cmd)[i])
            IN  have > 0 => Utf8Valid(SubSeq(LeBytes(LenFields(p.cmd)[i]), 1, have))

\* The bytes [lo, hi) of the piece p, which starts at byte off.
Clip(p, off, lo, hi) ==
    IF hi <= lo THEN <<>>
    ELSE IF lo = off /\ hi = off + p.n THEN <<p>>
    ELSE IF lo = off /\ p.t = "doc" THEN <<DocPiece(p.cmd, hi - lo)>>
    ELSE <<Junk(hi - lo)>>

\* The bytes [from, to) of the pieces f, the first of which starts at byte
\* off: what a reader whose cursor is at from gets when it reads to - from bytes.
RECURSIVE ReadPieces(_, _, _, _)
ReadPieces(f, off, from, to) ==
    IF f = <<>> \/ off >= to THEN <<>>
    ELSE Clip(f[1], off, Max(off, from), Min(off + f[1].n, to))
         \o ReadPieces(Tail(f), off + f[1].n, from, to)

\* Reading len bytes of file f with the cursor at cur: short at end of file.
ReadAt(f, cur, len) == ReadPieces(f, 0, cur, Min(cur + len, FileLen(f)))

\* bson::from_slice / Document::from_reader on the bytes b: the document at
\* the start of b, whatever follows it; an error when b does not start with
\* a complete document.
Decode(b) ==
    IF b # <<>> /\ IsWholeDoc(b[1])
    THEN [ok |-> TRUE, cmd |-> b[1].cmd]
    ELSE [ok |-> FALSE, cmd |-> NoCmd]

\* --------------------------------------------------------------- index

CommandPos(gen, start, end) == [gen |-> gen, pos |-> start, len |-> end - start]

EmptyIndex == [k \in {} |-> CommandPos(0, 0, 0)]

\* An insert that keeps the entry a key already has (a map whose insert
\* does not replace).
IndexInsertKeep(index, key, cp) ==
    [k \in DOMAIN index \cup {key} |-> IF k \in DOMAIN index THEN index[k] ELSE cp]

IndexInsert(index, key, cp) ==
    [k \in DOMAIN index \cup {key} |-> IF k = key THEN cp ELSE index[k]]

IndexRemove(index, key) == [k \in DOMAIN index \ {key} |-> index[k]]

\* Length of the entry the index holds for key, 0 when it holds none.
OldLen(index, key) == IF key \in DOMAIN index THEN index[key].len ELSE 0

\* ---------------------------------------------------------------- load

\* Index of the piece of f, from piece i on, that ends the line read_line
\* reads: the first one holding a 0x0A byte, Len(f) + 1 at end of file.
RECURSIVE LineEnd(_, _)
LineEnd(f, i) ==
    IF i > Len(f) THEN i
    ELSE IF PieceHasLf(f[i]) THEN i
    ELSE LineEnd(f, i + 1)

LoadResult(ok, err, index, uncompacted) ==
    [ok |-> ok, err |-> err, index |-> index, uncompacted |-> uncompacted]

RECURSIVE LoadFrom(_, _, _, _, _)

\* The match of load() on the decoded cmd, whose line is the bytes
\* [pos, new_pos); next is the piece the following line starts with.
LoadCmd(gen, f, next, index, uncompacted, cmd, pos, new_pos) ==
    IF cmd.op = "Set"
    THEN LoadFrom(gen, f, next,
                  IndexInsert(index, cmd.key, CommandPos(gen, pos, new_pos)),
                  uncompacted + OldLen(index, cmd.key))
    ELSE LoadFrom(gen, f, next,
                  IndexRemove(index, cmd.key),
                  uncompacted + OldLen(index, cmd.key) + (new_pos - pos))

\* One turn of the loop of load(): the line read_line returns is the pieces
\* i..last of f (of a document holding a 0x0A byte, the bytes up to it).
\* read_line fails on bytes that are not UTF-8; from_slice fails unless the
\* line starts with a complete document.  A line that ends inside a
\* document fails here or, the next line starting inside that document, in
\* the next turn: open() returns the error either way.
LoadLine(gen, f, i, last, index, uncompacted) ==
    IF \E m \in i..last : ~PieceUtf8(f[m])
    THEN LoadResult(FALSE, "Io", index, uncompacted)
    ELSE IF ~Decode(SubSeq(f, i, last)).ok \/ (f[last].t = "doc" /\ PieceHasLf(f[last]))
    THEN LoadResult(FALSE, "BsonDeser", index, uncompacted)
    ELSE LoadCmd(gen, f, last + 1, index, uncompacted, f[i].cmd,
                 Offset(f, i), Offset(f, last + 1))

\* The loop of load() from piece i of file gen on.
LoadFrom(gen, f, i, index, uncompacted) ==
    IF i > Len(f)
    THEN LoadResult(TRUE, "", index, uncompacted)
    ELSE LoadLine(gen, f, i, Min(LineEnd(f, i), Len(f)), index, uncompacted)

load(gen, f, index) == LoadFrom(gen, f, 1, index, 0)

\* A record as the loop of load() sees it: the offset pos its line starts
\* at and the command decoded from the line.
Scanned(pos, cmd) == [pos |-> pos, cmd |-> cmd]

RECURSIVE ScanFrom(_, _)

\* One turn of the loop of load(), as LoadLine: the (pos, cmd) it folds into
\* the index for the line of the pieces i..last, an entry without a command
\* where read_line or from_slice fails and the loop ends.
ScanLine(f, i, last) ==
    IF \/ \E m \in i..last : ~PieceUtf8(f[m])
       \/ ~Decode(SubSeq(f, i, last)).ok
       \/ (f[last].t = "doc" /\ PieceHasLf(f[last]))
    THEN <<Scanned(Offset(f, i), NoCmd)>>
    ELSE <<Scanned(Offset(f, i), f[i].cmd)>> \o ScanFrom(f, last + 1)

\* The sequence of (pos, cmd) the loop of load() goes through from piece i
\* of the file f on.
ScanFrom(f, i) ==
    IF i > Len(f) THEN <<>>
    ELSE ScanLine(f, i, Min(LineEnd(f, i), Len(f)))

\* ------------------------------------------------------------ results

\* What a call returned: Ok(value) (NoValue for () and for None), Err(e),
\* a panic, or nothing because the process was killed inside the call.
Ok(value) == [tag |-> "Ok", value |-> value]

Err(e) == [tag |-> "Err", value |-> e]

Panic == [tag |-> "panic", value |-> NoValue]

KilledInCall == [tag |-> "killed", value |-> NoValue]

\* ------------------------------------------------- readers and files

\* BufReaderWithPos: the position the wrapper tracks and the cursor of the
\* BufReader inside it.
Reader(pos, cur) == [pos |-> pos, cur |-> cur]

\* BufReaderWithPos::new: both at 0.
NewReader == Reader(0, 0)

\* Seek for BufReaderWithPos: moves the cursor and records where it is.
Seek(r, pos) == Reader(pos, pos)

\* Read for BufReaderWithPos: n bytes came out of the inner reader.
AfterRead(r, n) == Reader(r.pos + n, r.cur + n)

FnPut(f, x, y) == [z \in DOMAIN f \cup {x} |-> IF z = x THEN y ELSE f[z]]

FnDrop(f, S) == [z \in DOMAIN f \ S |-> f[z]]

EmptyMap == [z \in {} |-> 0]

\* new_log_file: creates gen.log when it is not there (create + append) and
\* registers a fresh reader for it.
new_log_file(disk, readers, gen) ==
    [disk |-> IF gen \in DOMAIN disk THEN disk ELSE FnPut(disk, gen, <<>>),
     readers |-> FnPut(readers, gen, NewReader)]

\* sorted_gen_list as a set: the loops over it run in ascending order.
GenList(disk) == DOMAIN disk

MaxOf(S) == CHOOSE x \in S : \A y \in S : y <= x

MinOf(S) == CHOOSE x \in S : \A y \in S : x <= y

\* ---------------------------------------------------------------- open

OpenResult(ok, err, readers, index, uncompacted) ==
    [ok |-> ok, err |-> err, readers |-> readers, index |-> index,
     uncompacted |-> uncompacted]

RECURSIVE OpenLoop(_, _, _, _, _)

\* One turn of the loop of open(), l being what load() returned for gen.
\* load() seeks its reader to 0 and then reads through the inner BufReader,
\* so the reader it leaves has pos 0 and its cursor at the end of the file.
OpenGen(disk, gens, gen, readers, index, uncompacted, l) ==
    IF ~l.ok
    THEN OpenResult(FALSE, l.err, readers, index, uncompacted)
    ELSE OpenLoop(disk, gens \ {gen},
                  FnPut(readers, gen, Reader(0, FileLen(disk[gen]))),
                  l.index, uncompacted + l.uncompacted)

\* The loop of open() over the generations gens, smallest first.
OpenLoop(disk, gens, readers, index, uncompacted) ==
    IF gens = {}
    THEN OpenResult(TRUE, "", readers, index, uncompacted)
    ELSE OpenGen(disk, gens, MinOf(gens), readers, index, uncompacted,
                 load(MinOf(gens), disk[MinOf(gens)], index))

NoStore ==
    [readers |-> EmptyMap, writer_pos |-> 0, current_gen |-> 0,
     index |-> EmptyIndex, uncompacted |-> 0]

Store(readers, writer_pos, current_gen, index, uncompacted) ==
    [readers |-> readers, writer_pos |-> writer_pos, current_gen |-> current_gen,
     index |-> index, uncompacted |-> uncompacted]

\* A generation chosen from the number of files instead of the greatest one.
NextGenCount(disk) == Cardinality(GenList(disk)) + 1

\* gen_list.last().unwrap_or(&0) + 1
NextGen(disk) == (IF GenList(disk) = {} THEN 0 ELSE MaxOf(GenList(disk))) + 1

\* The end of open(): o is what the loop returned, n the new log file.
Opened(disk, o, current_gen, n) ==
    IF ~o.ok
    THEN [ok |-> FALSE, err |-> o.err, kv |-> NoStore, disk |-> disk]
    ELSE [ok |-> TRUE, err |-> "",
          kv |-> Store(n.readers, 0, current_gen, o.index, o.uncompacted),
          disk |-> n.disk]

OpenWith(disk, o) == Opened(disk, o, NextGen(disk), new_log_file(disk, o.readers, NextGen(disk)))

\* KvStore::open on the directory disk.
open(disk) == OpenWith(disk, OpenLoop(disk, GenList(disk), EmptyMap, EmptyIndex, 0))

\* ------------------------------------------------------------- compact

\* The state of the copy loop of compact(): out is the bytes written to the
\* compaction file so far.
Copying(index, readers, out, new_pos, panic) ==
    [index |-> index, readers |-> readers, out |-> out, new_pos |-> new_pos,
     panic |-> panic]

\* The copy of one entry: r is the reader after the conditional seek, data
\* the bytes io::copy moved.
Copied(compaction_gen, c, key, gen, r, data) ==
    Copying([c.index EXCEPT ![key] =
                CommandPos(compaction_gen, c.new_pos, c.new_pos + FileLen(data))],
            [c.readers EXCEPT ![gen] = AfterRead(r, FileLen(data))],
            c.out \o data,
            c.new_pos + FileLen(data),
            FALSE)

\* reader.take(cmd_pos.len) copied from where the cursor of r is.
CopyFrom(disk, compaction_gen, c, key, cmd_pos, r) ==
    Copied(compaction_gen, c, key, cmd_pos.gen, r, ReadAt(disk[cmd_pos.gen], r.cur, cmd_pos.len))

\* if reader.pos != cmd_pos.pos { reader.seek(..) }
SeekIfMoved(r, pos) == IF r.pos # pos THEN Seek(r, pos) ELSE r

\* One turn of the copy loop of compact(), for the index entry of key.
CopyEntry(disk, compaction_gen, c, key) ==
    IF c.index[key].gen \notin DOMAIN c.readers
    THEN [c EXCEPT !.panic = TRUE]
    ELSE CopyFrom(disk, compaction_gen, c, key, c.index[key],
                  SeekIfMoved(c.readers[c.index[key].gen], c.index[key].pos))

\* The copy loop over the keys of the index in BTreeMap order, from the
\* i-th key of KeySeq on.
RECURSIVE CopyLoop(_, _, _, _)
CopyLoop(disk, compaction_gen, c, i) ==
    IF i > Len(KeySeq) \/ c.panic THEN c
    ELSE IF KeySeq[i] \in DOMAIN c.index
    THEN CopyLoop(disk, compaction_gen, CopyEntry(disk, compaction_gen, c, KeySeq[i]), i + 1)
    ELSE CopyLoop(disk, compaction_gen, c, i + 1)

\* The two files compact() creates first: current_gen + 2, then
\* current_gen + 1.
NewFiles(kv, disk) ==
    new_log_file(new_log_file(disk, kv.readers, kv.current_gen + 2).disk,
                 new_log_file(disk, kv.readers, kv.current_gen + 2).readers,
                 kv.current_gen + 1)

CopyAll(kv, n) ==
    [c |-> CopyLoop(n.disk, kv.current_gen + 1,
                    Copying(kv.index, n.readers, <<>>, 0, FALSE), 1),
     disk |-> n.disk]

\* compact() up to the end of its copy loop: c the state of the loop, disk
\* the directory with the two new files, both still empty.
CompactCopy(kv, disk) == CopyAll(kv, NewFiles(kv, disk))

\* A filter that takes the compaction generation for stale too.
StaleGensThrough(readers, compaction_gen) ==
    {gen \in DOMAIN readers : gen <= compaction_gen}

\* .filter(|&&gen| gen < compaction_gen)
StaleGens(readers, compaction_gen) == {gen \in DOMAIN readers : gen < compaction_gen}

\* The directory once the compaction writer is flushed.
Flushed(cc, compaction_gen) == [cc.disk EXCEPT ![compaction_gen] = @ \o cc.c.out]

\* compact() from the flush on: the stale readers and files go.
CompactEnd(kv, cc, compaction_gen) ==
    IF cc.c.panic
    THEN [res |-> Panic, kv |-> kv, disk |-> cc.disk]
    ELSE [res |-> Ok(NoValue),
          kv |-> Store(FnDrop(cc.c.readers, StaleGens(cc.c.readers, compaction_gen)),
                       0, kv.current_gen + 2, cc.c.index, 0),
          disk |-> FnDrop(Flushed(cc, compaction_gen),
                          StaleGens(cc.c.readers, compaction_gen))]

\* KvStore::compact.
compact(kv, disk) == CompactEnd(kv, CompactCopy(kv, disk), kv.current_gen + 1)

\* ------------------------------------------------------ set, get, remove

\* A write that stays in the BufWriter: nothing reaches the file.
WriteUnflushed(disk, gen, buffer) == disk

\* A writer that appends to the oldest log file of the directory.
WriteOldest(disk, gen, buffer) == [disk EXCEPT ![MinOf(DOMAIN disk)] = @ \o buffer]

\* self.writer.write_all(&buffer) and self.writer.flush(): the bytes of
\* buffer are at the end of the file gen.log when flush returns.
WriteFlush(disk, gen, buffer) == [disk EXCEPT ![gen] = @ \o buffer]

\* The end of set(): the compaction when uncompacted is over the threshold.
SetEnd(kv1, written) ==
    IF kv1.uncompacted > COMPACTION_THRESHOLD
    THEN compact(kv1, written)
    ELSE [res |-> Ok(NoValue), kv |-> kv1, disk |-> written]

\* The record of set(): the document and the newline of writeln!.
SetBuffer(key, value) == <<Doc(CmdSet(key, value)), Lf>>

\* KvStore::set.
set(kv, disk, key, value) ==
    SetEnd([kv EXCEPT !.writer_pos = @ + FileLen(SetBuffer(key, value)),
                      !.index = IndexInsert(kv.index, key,
                                    CommandPos(kv.current_gen, kv.writer_pos,
                                               kv.writer_pos + FileLen(SetBuffer(key, value)))),
                      !.uncompacted = @ + OldLen(kv.index, key)],
           WriteFlush(disk, kv.current_gen, SetBuffer(key, value)))

\* The end of get(): value_buf is what read_exact got for the len bytes
\* asked; Document::from_reader(..).unwrap() panics when they hold no
\* complete document.
GetEnd(kv1, len, value_buf) ==
    IF FileLen(value_buf) < len THEN [res |-> Err("Io"), kv |-> kv1]
    ELSE IF ~Decode(value_buf).ok THEN [res |-> Panic, kv |-> kv1]
    ELSE IF Decode(value_buf).cmd.op = "Set"
    THEN [res |-> Ok(Decode(value_buf).cmd.value), kv |-> kv1]
    ELSE [res |-> Err("UnexpectedCommandType"), kv |-> kv1]

\* get() from the seek on.
GetRead(kv, cmd_pos, value_buf) ==
    GetEnd([kv EXCEPT !.readers[cmd_pos.gen] =
                AfterRead(Seek(@, cmd_pos.pos), FileLen(value_buf))],
           cmd_pos.len, value_buf)

\* KvStore::get.
get(kv, disk, key) ==
    IF key \notin DOMAIN kv.index THEN [res |-> Ok(NoValue), kv |-> kv]
    ELSE IF kv.index[key].gen \notin DOMAIN kv.readers THEN [res |-> Panic, kv |-> kv]
    ELSE GetRead(kv, kv.index[key],
                 ReadAt(disk[kv.index[key].gen], kv.index[key].pos, kv.index[key].len))

\* The record of remove(): the document alone.
RemoveBuffer(key) == <<Doc(CmdRemove(key))>>

\* The records set() and remove() appended to the file f from piece i on,
\* each with the offset the writer had when it was appended.
RECURSIVE Appended(_, _)
Appended(f, i) ==
    IF i > Len(f) THEN <<>>
    ELSE IF f[i].t = "doc" THEN <<Scanned(Offset(f, i), f[i].cmd)>> \o Appended(f, i + 1)
    ELSE Appended(f, i + 1)

\* A remove that writes its record before it looks the key up.
RemoveUnchecked(kv, disk, key) ==
    IF key \in DOMAIN kv.index
    THEN [res |-> Ok(NoValue),
          kv |-> [kv EXCEPT !.writer_pos = @ + FileLen(RemoveBuffer(key)),
                            !.index = IndexRemove(kv.index, key),
                            !.uncompacted = @ + kv.index[key].len],
          disk |-> [disk EXCEPT ![kv.current_gen] = @ \o RemoveBuffer(key)]]
    ELSE [res |-> Err("NotFound"),
          kv |-> [kv EXCEPT !.writer_pos = @ + FileLen(RemoveBuffer(key))],
          disk |-> [disk EXCEPT ![kv.current_gen] = @ \o RemoveBuffer(key)]]

\* KvStore::remove.
remove(kv, disk, key) ==
    IF key \in DOMAIN kv.index
    THEN [res |-> Ok(NoValue),
          kv |-> [kv EXCEPT !.writer_pos = @ + FileLen(RemoveBuffer(key)),
                            !.index = IndexRemove(kv.index, key),
                            !.uncompacted = @ + kv.index[key].len],
          disk |-> WriteFlush(disk, kv.current_gen, RemoveBuffer(key))]
    ELSE [res |-> Err("NotFound"), kv |-> kv, disk |-> disk]

\* ------------------------------------------------------ server and client

\* Display of KvError (error.rs); {0} stands for the text of the wrapped
\* error.
ErrMsg(e) ==
    CASE e = "NotFound" -> "Key not found"
      [] e = "UnexpectedCommandType" -> "Unexpected command type"
      [] e = "Io" -> "IO error: {0}"
      [] OTHER -> "BSON deserialization error: {0}"

Response(kind, variant, payload) == [kind |-> kind, variant |-> variant, payload |-> payload]

NoResponse == Response("none", "none", NoValue)

\* A Get arm that reports an absent key as an error.
GetArmNotFound(res) ==
    IF res.tag = "Ok" /\ res.value # NoValue THEN Response("GetResponse", "Ok", res.value)
    ELSE IF res.tag = "Ok" THEN Response("GetResponse", "Err", ErrMsg("NotFound"))
    ELSE Response("GetResponse", "Err", ErrMsg(res.value))

\* A Set arm that answers with the response type of Get.
SetArmAsGet(res) ==
    IF res.tag = "Ok" THEN Response("GetResponse", "Ok", NoValue)
    ELSE Response("GetResponse", "Err", ErrMsg(res.value))

\* The arms of the match in handle_connection: the response built from what
\* the engine call returned.
GetArm(res) ==
    IF res.tag = "Ok" THEN Response("GetResponse", "Ok", res.value)
    ELSE Response("GetResponse", "Err", ErrMsg(res.value))

SetArm(res) ==
    IF res.tag = "Ok" THEN Response("SetResponse", "Ok", NoValue)
    ELSE Response("SetResponse", "Err", ErrMsg(res.value))

RemoveArm(res) ==
    IF res.tag = "Ok" THEN Response("RemoveResponse", "Ok", NoValue)
    ELSE Response("RemoveResponse", "Err", ErrMsg(res.value))

\* bson::to_vec(&resp): the document names the variant, not the enum.
WireEncode(resp) == [variant |-> resp.variant, payload |-> resp.payload]

\* bson::from_reader::<kind>: the client decodes the document as the
\* response type of the request it sent.
WireDecode(kind, doc) == Response(kind, doc.variant, doc.payload)

\* KvClient::get / set / remove, from the response on: Ok(payload) or
\* Err(KvError::StringError(msg)).
ClientResult(kind, doc) ==
    LET resp == WireDecode(kind, doc)
    IN  IF resp.variant = "Ok" THEN Ok(resp.payload) ELSE Err(resp.payload)

NoResult == [tag |-> "none", value |-> NoValue]

\* ---------------------------------------------------------------- state

VARIABLES
    disk,   \* the data directory: generation -> pieces of <generation>.log
    up,     \* a process holds an open KvStore
    kv,     \* the fields of that KvStore
    nops,   \* engine calls made so far
    last,   \* the last call: what was asked, what the engine returned, the
            \* response the server wrote, what the client returned
    acked,  \* per key, the value of the last acknowledged set, NoValue after
            \* an acknowledged remove or when none was acknowledged
    prev,   \* how the previous store ended (clean: every store before it
            \* was closed between calls) and what it showed when it last
            \* returned from a call: the keys of its index, what get
            \* returned, its current_gen
    srv,    \* KvServer::run: the connections waiting at the listener, the
            \* ones being handled, the handled ones, the errors logged
    boot    \* main() of kv-server: its arguments, the engine file of the
            \* working directory, how far it got

vars == <<disk, up, kv, nops, last, acked, prev, srv, boot>>

\* No listener: the engine is driven call by call.
NoServer ==
    [running |-> FALSE, arrived |-> 0, backlog |-> <<>>, inflight |-> {},
     accepted |-> <<>>, done |-> <<>>, logged |-> 0]

\* main() is not part of the behaviour.
NoBoot ==
    [pc |-> "none", addr_ok |-> TRUE, cli_engine |-> "Kvs", file |-> "kvs",
     engine |-> "none", opened |-> "none", bound |-> FALSE, status |-> "none"]

\* What get(key) returns in the current state.
GetView(key) == get(kv, disk, key).res

View == [k \in Keys |-> GetView(k)]

Call(op, key, value, res, resp, client) ==
    [seq |-> nops + 1, op |-> op, key |-> key, value |-> value, res |-> res,
     resp |-> resp, client |-> client]

Ended(how) ==
    [how |-> how, clean |-> prev.clean /\ prev.how \in {"none", "close"},
     keys |-> DOMAIN kv.index, view |-> View, gen |-> kv.current_gen]

Init ==
    /\ disk = open(EmptyMap).disk
    /\ up = TRUE
    /\ kv = open(EmptyMap).kv
    /\ nops = 0
    /\ last = [seq |-> 0, op |-> "open", key |-> NoValue, value |-> NoValue,
               res |-> Ok(NoValue), resp |-> NoResponse, client |-> NoResult]
    /\ acked = [k \in Keys |-> NoValue]
    /\ prev = [how |-> "none", clean |-> TRUE, keys |-> {},
               view |-> [k \in Keys |-> Ok(NoValue)], gen |-> 0]
    /\ srv = NoServer
    /\ boot = NoBoot

\* A panic unwinds out of handle_connection and main, or the process is
\* stopped: the store is gone, the directory stays.
Died(how) ==
    /\ up' = FALSE
    /\ kv' = NoStore
    /\ prev' = Ended(how)

\* The server's part after an engine call that returned r: nothing when
\* the call panicked, else the response written and what the client makes
\* of it.
Served(op, key, value, r, kind, resp) ==
    /\ nops' = nops + 1
    /\ IF r.res.tag = "panic"
       THEN /\ Died("panic")
            /\ last' = Call(op, key, value, r.res, NoResponse, NoResult)
       ELSE /\ kv' = r.kv
            /\ last' = Call(op, key, value, r.res, resp, ClientResult(kind, WireEncode(resp)))
            /\ UNCHANGED <<up, prev>>

SetDone(key, value, r) ==
    /\ r.kv.current_gen <= MaxGen
    /\ Served("set", key, value, r, "SetResponse", SetArm(r.res))
    /\ disk' = r.disk
    /\ acked' = IF r.res.tag = "Ok" THEN [acked EXCEPT ![key] = value] ELSE acked

\* handle_connection for Request::Set { key, value }.
ServeSet(key, value) ==
    /\ up
    /\ nops < MaxOps
    /\ SetDone(key, value, set(kv, disk, key, value))
    /\ UNCHANGED <<srv, boot>>

GetDone(key, r) ==
    /\ Served("get", key, NoValue, r, "GetResponse", GetArm(r.res))
    /\ UNCHANGED <<disk, acked>>

\* handle_connection for Request::Get { key }.
ServeGet(key) ==
    /\ up
    /\ nops < MaxOps
    /\ GetDone(key, get(kv, disk, key))
    /\ UNCHANGED <<srv, boot>>

RemoveDone(key, r) ==
    /\ Served("remove", key, NoValue, r, "RemoveResponse", RemoveArm(r.res))
    /\ disk' = r.disk
    /\ acked' = IF r.res.tag = "Ok" THEN [acked EXCEPT ![key] = NoValue] ELSE acked

\* handle_connection for Request::Remove { key }.
ServeRemove(key) ==
    /\ up
    /\ nops < MaxOps
    /\ RemoveDone(key, remove(kv, disk, key))
    /\ UNCHANGED <<srv, boot>>

CompactDone(r) ==
    /\ nops' = nops + 1
    /\ disk' = r.disk
    /\ last' = Call("compact", NoValue, NoValue, r.res, NoResponse, NoResult)
    /\ IF r.res.tag = "panic"
       THEN Died("panic")
       ELSE kv' = r.kv /\ UNCHANGED <<up, prev>>
    /\ UNCHANGED acked

\* A direct call of the public KvStore::compact.
Compact ==
    /\ up
    /\ nops < MaxOps
    /\ kv.current_gen + 2 <= MaxGen
    /\ CompactDone(compact(kv, disk))
    /\ UNCHANGED <<srv, boot>>

\* The store is dropped, or the process is killed, between two calls: every
\* acknowledged write was flushed, the directory stays as it is.
Close ==
    /\ up
    /\ Died("close")
    /\ UNCHANGED <<disk, nops, last, acked>>
    /\ UNCHANGED <<srv, boot>>

OpenDone(o) ==
    /\ disk' = o.disk
    /\ up' = o.ok
    /\ kv' = o.kv
    /\ last' = [seq |-> nops, op |-> "open", key |-> NoValue, value |-> NoValue,
                res |-> IF o.ok THEN Ok(NoValue) ELSE Err(o.err),
                resp |-> NoResponse, client |-> NoResult]
    /\ UNCHANGED <<nops, acked, prev>>

\* KvStore::open on the directory a previous process left.
Open ==
    /\ ~up
    /\ NextGen(disk) <= MaxGen
    /\ OpenDone(open(disk))
    /\ UNCHANGED <<srv, boot>>

\* Byte counts at which a write of the document of c is cut short in the
\* model: after its first byte, before its last byte and, for a Set, after
\* the document and before the newline.
Cuts(c) == {1, DocLen(c) - 1} \cup (IF c.op = "Set" THEN {DocLen(c)} ELSE {})

Killed(op, key, value, how) ==
    /\ nops' = nops + 1
    /\ last' = Call(op, key, value, KilledInCall, NoResponse, NoResult)
    /\ Died(how)
    /\ UNCHANGED acked

\* The process dies inside set() or remove() while the record is being
\* written: n bytes of it reached the file, nothing was acknowledged.
CrashInAppend(c, n) ==
    /\ up
    /\ nops < MaxOps
    /\ c.op = "Remove" => c.key \in DOMAIN kv.index
    /\ disk' = [disk EXCEPT ![kv.current_gen] = @ \o <<DocPiece(c, n)>>]
    /\ Killed(IF c.op = "Set" THEN "set" ELSE "remove", c.key, c.value, "crash_append")
    /\ UNCHANGED <<srv, boot>>

\* The first m pieces of out and, with cut, all but the last byte of the
\* document after them.
Prefix(out, m, cut) ==
    SubSeq(out, 1, m) \o
    (IF cut /\ m < Len(out) /\ out[m + 1].t = "doc" /\ out[m + 1].n > 1
     THEN <<DocPiece(out[m + 1].cmd, out[m + 1].n - 1)>>
     ELSE <<>>)

CopyCrashed(cc, m, cut) ==
    /\ m <= Len(cc.c.out)
    /\ cut => m < Len(cc.c.out)
    /\ disk' = [cc.disk EXCEPT ![kv.current_gen + 1] = Prefix(cc.c.out, m, cut)]
    /\ Killed("compact", NoValue, NoValue, "crash_compact")

\* The process dies inside compact() before the compaction file is whole:
\* both new files exist, a prefix of the copied bytes reached the
\* compaction file, no old file was deleted.
CrashInCopy(m, cut) ==
    /\ up
    /\ nops < MaxOps
    /\ kv.current_gen + 2 <= MaxGen
    /\ CopyCrashed(CompactCopy(kv, disk), m, cut)
    /\ UNCHANGED <<srv, boot>>

DeleteCrashed(cc, gone) ==
    /\ gone \subseteq StaleGens(cc.c.readers, kv.current_gen + 1)
    /\ disk' = FnDrop(Flushed(cc, kv.current_gen + 1), gone)
    /\ Killed("compact", NoValue, NoValue, "crash_compact")

\* The process dies inside compact() after the flush, having deleted the
\* stale generations gone (HashMap order: any of them first).
CrashInDelete(gone) ==
    /\ up
    /\ nops < MaxOps
    /\ kv.current_gen + 2 <= MaxGen
    /\ DeleteCrashed(CompactCopy(kv, disk), gone)
    /\ UNCHANGED <<srv, boot>>

Next ==
    \/ \E k \in Keys, v \in Values : ServeSet(k, v)
    \/ \E k \in Keys : ServeGet(k)
    \/ \E k \in Keys : ServeRemove(k)
    \/ Compact
    \/ Close
    \/ Open
    \/ \E c \in Commands : \E n \in Cuts(c) : CrashInAppend(c, n)
    \/ \E m \in 0..(2 * Len(KeySeq)) : \E cut \in BOOLEAN : CrashInCopy(m, cut)
    \/ \E gone \in SUBSET (1..MaxGen) : CrashInDelete(gone)

Spec == Init /\ [][Next]_vars

\* --------------------------------------------------------- KvServer::run
\* The listener and the loop of run(): clients connect at any time, each
\* with one request; the loop takes the connections one by one.

\* A Request as handle_connection matches it; "Bad" stands for bytes that
\* bson::from_reader cannot decode as a Request.
Request(kind, key, value) == [kind |-> kind, key |-> key, value |-> value]

Requests ==
    {Request("Get", "a", NoValue), Request("Set", "a", "1"), Request("Set", "a", "2"),
     Request("Remove", "a", NoValue), Request("Bad", NoValue, NoValue)}

\* A connection: the id of the client and the request it sends.
Conn(id, req) == [id |-> id, req |-> req]

\* A handled connection: fate is "ok" (response written), "accept_err",
\* "decode_err" or "write_err"; result is what the client returned.
Handled(c, fate, result) == [id |-> c.id, req |-> c.req, fate |-> fate, result |-> result]

\* The call of the engine in the arm of the match for req.
EngineCall(store, dir, req) ==
    IF req.kind = "Get"
    THEN [res |-> get(store, dir, req.key).res, kv |-> get(store, dir, req.key).kv,
          disk |-> dir]
    ELSE IF req.kind = "Set" THEN set(store, dir, req.key, req.value)
    ELSE remove(store, dir, req.key)

\* The response the arm builds from what the call returned.
Arm(req, res) ==
    IF req.kind = "Get" THEN GetArm(res)
    ELSE IF req.kind = "Set" THEN SetArm(res)
    ELSE RemoveArm(res)

\* The response type the client of req decodes.
KindOf(req) ==
    IF req.kind = "Get" THEN "GetResponse"
    ELSE IF req.kind = "Set" THEN "SetResponse"
    ELSE "RemoveResponse"

\* What the client of req returns once the response is written.
Answer(req, res) == ClientResult(KindOf(req), WireEncode(Arm(req, res)))

\* A loop that asks the listener for the next connection whatever it is
\* doing.
ServerAlwaysAccepts(inflight) == TRUE

\* for stream in listener.incoming(): the body of the loop, and
\* handle_connection in it, has returned before the next stream is taken.
ServerIdle(inflight) == inflight = {}

\* A loop that returns the error of a connection to its caller.
ConnFailedReturns(s, c) ==
    [s EXCEPT !.logged = @ + 1, !.running = FALSE, !.inflight = @ \ {c}]

\* if let Err(e) = self.handle_connection(stream) { error!(..) } and
\* Err(e) => error!(..): the error is logged and the loop goes on.
ConnFailed(s, c) ==
    [s EXCEPT !.logged = @ + 1, !.inflight = @ \ {c}]

\* A server runs on the store opened on an empty directory.
InitServer ==
    /\ disk = open(EmptyMap).disk
    /\ up = TRUE
    /\ kv = open(EmptyMap).kv
    /\ nops = 0
    /\ last = [seq |-> 0, op |-> "open", key |-> NoValue, value |-> NoValue,
               res |-> Ok(NoValue), resp |-> NoResponse, client |-> NoResult]
    /\ acked = [k \in Keys |-> NoValue]
    /\ prev = [how |-> "none", clean |-> TRUE, keys |-> {},
               view |-> [k \in Keys |-> Ok(NoValue)], gen |-> 0]
    /\ srv = [NoServer EXCEPT !.running = TRUE]
    /\ boot = NoBoot

\* A client connects and sends req: the connection waits at the listener.
Connect(req) ==
    /\ srv.arrived < MaxConns
    /\ srv' = [srv EXCEPT !.arrived = @ + 1,
                          !.backlog = Append(@, Conn(srv.arrived + 1, req))]
    /\ UNCHANGED <<disk, up, kv, nops, last, acked, prev, boot>>

\* listener.incoming() yields Ok(stream): handle_connection starts on it.
Accept ==
    /\ srv.running
    /\ ServerIdle(srv.inflight)
    /\ srv.backlog # <<>>
    /\ srv' = [srv EXCEPT !.backlog = Tail(@),
                          !.inflight = @ \cup {Head(srv.backlog)},
                          !.accepted = Append(@, Head(srv.backlog))]
    /\ UNCHANGED <<disk, up, kv, nops, last, acked, prev, boot>>

\* listener.incoming() yields Err(e) for the connection at the head.
AcceptFailed ==
    /\ srv.running
    /\ ServerIdle(srv.inflight)
    /\ srv.backlog # <<>>
    /\ srv' = [ConnFailed(srv, Head(srv.backlog)) EXCEPT
                  !.backlog = Tail(@),
                  !.done = Append(@, Handled(Head(srv.backlog), "accept_err", Err("Io")))]
    /\ UNCHANGED <<disk, up, kv, nops, last, acked, prev, boot>>

\* bson::from_reader fails on the bytes of the request: handle_connection
\* returns the error before any call of the engine.
DecodeFailed(c) ==
    /\ srv.running
    /\ c \in srv.inflight
    /\ c.req.kind = "Bad"
    /\ srv' = [ConnFailed(srv, c) EXCEPT
                  !.done = Append(@, Handled(c, "decode_err", Err("Io")))]
    /\ UNCHANGED <<disk, up, kv, nops, last, acked, prev, boot>>

\* The engine call of c returned r; a panic in it ends the process.
Called(c, r, fate, s) ==
    /\ disk' = r.disk
    /\ IF r.res.tag = "panic"
       THEN /\ up' = FALSE
            /\ kv' = NoStore
            /\ srv' = [srv EXCEPT !.running = FALSE, !.inflight = {}]
       ELSE /\ up' = up
            /\ kv' = r.kv
            /\ srv' = [s EXCEPT !.done = Append(@, Handled(c, fate,
                            IF fate = "ok" THEN Answer(c.req, r.res) ELSE Err("Io")))]
    /\ UNCHANGED <<nops, last, acked, prev, boot>>

\* handle_connection for c: the request is decoded, the engine called, the
\* response written and flushed.
Respond(c) ==
    /\ srv.running
    /\ c \in srv.inflight
    /\ c.req.kind # "Bad"
    /\ Called(c, EngineCall(kv, disk, c.req), "ok", [srv EXCEPT !.inflight = @ \ {c}])

\* handle_connection for c when writer.write or writer.flush of the
\* response fails: the engine call is done, the error is returned.
WriteFailed(c) ==
    /\ srv.running
    /\ c \in srv.inflight
    /\ c.req.kind # "Bad"
    /\ Called(c, EngineCall(kv, disk, c.req), "write_err", ConnFailed(srv, c))

NextServer ==
    \/ \E req \in Requests : Connect(req)
    \/ Accept
    \/ AcceptFailed
    \/ \E c \in srv.inflight : DecodeFailed(c)
    \/ \E c \in srv.inflight : Respond(c)
    \/ \E c \in srv.inflight : WriteFailed(c)

SpecServer == InitServer /\ [][NextServer]_vars

\* The thread of run() is scheduled: the loop takes the next connection of
\* the listener, and handle_connection on a taken connection returns.
SpecServerLive ==
    /\ SpecServer
    /\ WF_vars(Accept \/ AcceptFailed)
    /\ WF_vars(\E c \in srv.inflight : DecodeFailed(c) \/ Respond(c) \/ WriteFailed(c))

\* The requests of the connections in acc executed one after another on
\* the store st.kv over st.disk, those in pending left out: the store and
\* the directory they leave, and the result of each client.
SerialCall(st, c, r) ==
    [kv |-> r.kv, disk |-> r.disk,
     results |-> Append(st.results, [id |-> c.id, result |-> Answer(c.req, r.res)])]

SerialStep(st, c, pending) ==
    IF c \in pending \/ c.req.kind = "Bad" THEN st
    ELSE SerialCall(st, c, EngineCall(st.kv, st.disk, c.req))

RECURSIVE SerialRun(_, _, _, _)
SerialRun(acc, i, st, pending) ==
    IF i > Len(acc) THEN st
    ELSE SerialRun(acc, i + 1, SerialStep(st, acc[i], pending), pending)

\* ----------------------------------------------------- handle_connection
\* handle_connection statement by statement.  A stream is a connection with
\* what its client sent (the request document req and more further
\* documents after it) and what the server did on it: pc the position in
\* handle_connection, decoded the documents read from it, calls the engine
\* calls made for it, written the responses written and flushed to it,
\* open whether the server still holds the TcpStream, fate how
\* handle_connection ended.

Stream(id, req, more) ==
    [id |-> id, req |-> req, more |-> more, pc |-> "new", decoded |-> 0,
     calls |-> 0, written |-> 0, open |-> TRUE, res |-> NoResult, fate |-> "none"]

\* The server replaces the stream c in hand by d.
Hold(s, c, d) == [s EXCEPT !.inflight = (@ \ {c}) \cup {d}]

\* handle_connection returned on c, left as d: the TcpStream is dropped.
Dropped(s, d, fate) ==
    [s EXCEPT !.done = Append(@, [d EXCEPT !.open = FALSE, !.pc = "returned",
                                           !.fate = fate])]

\* A handler that, the response flushed, reads the next document of the
\* stream when the client sent one.
FlushedKeepAlive(c) ==
    IF c.more > 0
    THEN [c EXCEPT !.written = @ + 1, !.more = @ - 1, !.pc = "new"]
    ELSE [c EXCEPT !.written = @ + 1, !.pc = "written"]

\* writer.write(&buf) and writer.flush() done: the match is over and
\* Ok(()) is what is left of handle_connection.
FlushedResp(c) == [c EXCEPT !.written = @ + 1, !.pc = "written"]

\* A client connects and sends req and more documents after it.
ConnectStream(req, more) ==
    /\ srv.arrived < MaxConns
    /\ srv' = [srv EXCEPT !.arrived = @ + 1,
                          !.backlog = Append(@, Stream(srv.arrived + 1, req, more))]
    /\ UNCHANGED <<disk, up, kv, nops, last, acked, prev, boot>>

\* let req: Request = bson::from_reader(reader)?: one document is read; on
\* an error handle_connection returns it.
ReadRequest(c) ==
    /\ srv.running
    /\ c \in srv.inflight
    /\ c.pc = "new"
    /\ srv' = IF c.req.kind = "Bad"
              THEN Dropped(ConnFailed(srv, c), c, "decode_err")
              ELSE Hold(srv, c, [c EXCEPT !.decoded = @ + 1, !.pc = "decoded"])
    /\ UNCHANGED <<disk, up, kv, nops, last, acked, prev, boot>>

\* The engine call of the arm returned r.
EngineReturned(c, r) ==
    /\ nops' = nops + 1
    /\ disk' = r.disk
    /\ IF r.res.tag = "panic"
       THEN /\ up' = FALSE
            /\ kv' = NoStore
            /\ srv' = [srv EXCEPT !.running = FALSE, !.inflight = {}]
       ELSE /\ up' = up
            /\ kv' = r.kv
            /\ srv' = Hold(srv, c, [c EXCEPT !.calls = @ + 1, !.res = r.res,
                                             !.pc = "called"])
    /\ UNCHANGED <<last, acked, prev, boot>>

\* match req: self.engine.get / set / remove for the decoded request.
CallEngine(c) ==
    /\ srv.running
    /\ c \in srv.inflight
    /\ c.pc = "decoded"
    /\ EngineReturned(c, EngineCall(kv, disk, c.req))

\* send_resp!: the response is encoded, written and flushed.
SendResp(c) ==
    /\ srv.running
    /\ c \in srv.inflight
    /\ c.pc = "called"
    /\ srv' = Hold(srv, c, FlushedResp(c))
    /\ UNCHANGED <<disk, up, kv, nops, last, acked, prev, boot>>

\* send_resp!: writer.write or writer.flush fails; handle_connection
\* returns the error.
SendRespFailed(c) ==
    /\ srv.running
    /\ c \in srv.inflight
    /\ c.pc = "called"
    /\ srv' = Dropped(ConnFailed(srv, c), c, "write_err")
    /\ UNCHANGED <<disk, up, kv, nops, last, acked, prev, boot>>

\* Ok(()): handle_connection returns, stream and its buffers are dropped.
ReturnOk(c) ==
    /\ srv.running
    /\ c \in srv.inflight
    /\ c.pc = "written"
    /\ srv' = Dropped([srv EXCEPT !.inflight = @ \ {c}], c, "ok")
    /\ UNCHANGED <<disk, up, kv, nops, last, acked, prev, boot>>

NextHandle ==
    \/ \E req \in Requests : \E more \in 0..1 : ConnectStream(req, more)
    \/ Accept
    \/ \E c \in srv.inflight : ReadRequest(c)
    \/ \E c \in srv.inflight : CallEngine(c)
    \/ \E c \in srv.inflight : SendResp(c)
    \/ \E c \in srv.inflight : SendRespFailed(c)
    \/ \E c \in srv.inflight : ReturnOk(c)

SpecHandle == InitServer /\ [][NextHandle]_vars

\* -------------------------------------------------------------- recovery
\* KvStore::open on a directory whose log file holds whatever a previous
\* life and the storage under it left: whole records and damaged ones.

\* A record of which only the first n bytes are what was written: the
\* document cut short, and for a Set the newline after it.
Damaged(c, n) ==
    IF c.op = "Set" THEN <<DocPiece(c, n), Lf>> ELSE <<DocPiece(c, n)>>

\* The records a log file found at recovery is made of.
FoundRecords ==
    {SetBuffer("a", "1"), SetBuffer("b", "2"), RemoveBuffer("a"),
     Damaged(CmdSet("b", "2"), DocLen(CmdSet("b", "2")) - 1),
     Damaged(CmdSet("a", "1"), 1),
     Damaged(CmdRemove("a"), 1)}

\* The files of at most n records.
RECURSIVE FoundFiles(_)
FoundFiles(n) ==
    IF n = 0 THEN {<<>>}
    ELSE FoundFiles(n - 1) \cup {f \o r : f \in FoundFiles(n - 1), r \in FoundRecords}

\* No process runs; the directory holds 1.log.
InitRecover ==
    /\ disk \in {FnPut(EmptyMap, 1, f) : f \in FoundFiles(MaxRecords)}
    /\ up = FALSE
    /\ kv = NoStore
    /\ nops = 0
    /\ last = [seq |-> 0, op |-> "none", key |-> NoValue, value |-> NoValue,
               res |-> Ok(NoValue), resp |-> NoResponse, client |-> NoResult]
    /\ acked = [k \in Keys |-> NoValue]
    /\ prev = [how |-> "none", clean |-> TRUE, keys |-> {},
               view |-> [k \in Keys |-> Ok(NoValue)], gen |-> 0]
    /\ srv = NoServer
    /\ boot = NoBoot

NextRecover == Open

SpecRecover == InitRecover /\ [][NextRecover]_vars

\* ------------------------------------------------------ kv-server main
\* boot is the run of main(): pc its position, addr_ok whether --addr
\* parses, cli_engine the --engine flavor, file the content of the engine
\* file of the working directory, engine the flavor main settled on, opened
\* the engine it opened, bound whether the listener is bound, status how
\* the process ended.

Engines == {"Kvs", "Sled"}

\* No engine file in the directory.
NoFile == "none"

\* Contents of the engine file: what a server wrote, and two that no
\* server writes.
EngineFiles == {NoFile, "kvs", "sled", "sled\n", "rocks"}

\* impl fmt::Display for Engine.
EngineDisplay(e) == IF e = "Kvs" THEN "kvs" ELSE "sled"

\* impl FromStr for Engine: any other string is Kvs.
EngineFromStr(s) ==
    IF s = "kvs" THEN "Kvs"
    ELSE IF s = "sled" THEN "Sled"
    ELSE "Kvs"

\* current_engine(): None when the file is absent, else the parsed flavor.
current_engine(file) == IF file = NoFile THEN "none" ELSE EngineFromStr(file)

\* A check of the engine file that lets every flavor pass.
NeverWrongEngine(e, configured) == FALSE

\* if e != cli.engine.
WrongEngine(e, configured) == e # configured

\* A working directory: empty, or with one log file of at most one record.
FoundDirs == {EmptyMap} \cup {FnPut(EmptyMap, 1, f) : f \in FoundFiles(1)}

InitMain ==
    /\ disk \in FoundDirs
    /\ up = FALSE
    /\ kv = NoStore
    /\ nops = 0
    /\ last = [seq |-> 0, op |-> "none", key |-> NoValue, value |-> NoValue,
               res |-> Ok(NoValue), resp |-> NoResponse, client |-> NoResult]
    /\ acked = [k \in Keys |-> NoValue]
    /\ prev = [how |-> "none", clean |-> TRUE, keys |-> {},
               view |-> [k \in Keys |-> Ok(NoValue)], gen |-> 0]
    /\ srv = NoServer
    /\ boot \in {[NoBoot EXCEPT !.pc = "start", !.addr_ok = a, !.cli_engine = e,
                                !.file = f] :
                     a \in BOOLEAN, e \in Engines, f \in EngineFiles}

\* The process ends with a failure status: main returns Err, or exit(1).
Exit(b) == [b EXCEPT !.pc = "exit", !.status = "failure"]

\* Cli::parse() and SocketAddr::from_str(&cli.addr)?.
ParseArgs ==
    /\ boot.pc = "start"
    /\ boot' = IF boot.addr_ok THEN [boot EXCEPT !.pc = "parsed"] ELSE Exit(boot)
    /\ UNCHANGED <<disk, up, kv, nops, last, acked, prev, srv>>

\* The match on curr_engine, e being what current_engine() returned.
Matched(b, e) ==
    IF e = "none"
    THEN [b EXCEPT !.file = EngineDisplay(b.cli_engine), !.engine = b.cli_engine,
                   !.pc = "checked"]
    ELSE IF WrongEngine(e, b.cli_engine)
    THEN Exit(b)
    ELSE [b EXCEPT !.engine = e, !.pc = "checked"]

\* let curr_engine = current_engine()?; let engine = match curr_engine ..
CheckEngine ==
    /\ boot.pc = "parsed"
    /\ boot' = Matched(boot, current_engine(boot.file))
    /\ UNCHANGED <<disk, up, kv, nops, last, acked, prev, srv>>

\* Engine::Kvs => KvStore::open(current_dir()?)?, o being what it returned.
OpenedKvs(o) ==
    /\ OpenDone(o)
    /\ boot' = IF o.ok THEN [boot EXCEPT !.pc = "opened", !.opened = "Kvs"]
               ELSE Exit(boot)
    /\ UNCHANGED srv

\* match engine: the engine main settled on is opened.
OpenEngine ==
    /\ boot.pc = "checked"
    /\ IF boot.engine = "Kvs"
       THEN OpenedKvs(open(disk))
       ELSE /\ boot' = [boot EXCEPT !.pc = "opened", !.opened = "Sled"]
            /\ UNCHANGED <<disk, up, kv, nops, last, acked, prev, srv>>

\* run_server: TcpListener::bind(addr)? succeeds and the loop starts.
Bind ==
    /\ boot.pc = "opened"
    /\ boot' = [boot EXCEPT !.pc = "serving", !.bound = TRUE]
    /\ srv' = [NoServer EXCEPT !.running = TRUE]
    /\ UNCHANGED <<disk, up, kv, nops, last, acked, prev>>

\* run_server: TcpListener::bind(addr)? fails; the engine is dropped.
BindFailed ==
    /\ boot.pc = "opened"
    /\ boot' = Exit(boot)
    /\ up' = FALSE
    /\ kv' = NoStore
    /\ UNCHANGED <<disk, nops, last, acked, prev, srv>>

NextMain ==
    \/ ParseArgs
    \/ CheckEngine
    \/ OpenEngine
    \/ Bind
    \/ BindFailed

SpecMain == InitMain /\ [][NextMain]_vars

\* ================================================================ claims

\* The first store of the directory is open: it was opened on the empty
\* directory and no store was closed or lost since.
FirstStore == up /\ prev.how = "none"

\* C1: last-write-wins within one open KvStore.  While the store opened on
\* the empty directory is open, after any sequence of acknowledged set and
\* remove calls (sets that run a compaction included) get(k) returns the
\* value of the last acknowledged set(k, _) and None when an acknowledged
\* remove(k) followed it or k was never set.
C1_LastWriteWins == FirstStore => \A k \in Keys : GetView(k) = Ok(acked[k])

\* The third set of one key ran a compaction in the first store: the two
\* stale records exceeded the threshold, and the record just written now
\* lives in the compaction file.
C1_Witness ==
    /\ FirstStore
    /\ last.op = "set"
    /\ last.res.tag = "Ok"
    /\ kv.current_gen = 3
    /\ last.key \in DOMAIN kv.index
    /\ kv.index[last.key].gen = 2
    /\ kv.uncompacted = 0
    /\ acked[last.key] = last.value
    /\ GetView(last.key) = Ok(last.value)

\* C2: durability after ack.  When the store is reopened after having been
\* stopped between two calls, open succeeds and every key whose last
\* acknowledged write is set(k, v) reads v.
C2_Durability ==
    (last.op = "open" /\ prev.how = "close" /\ prev.clean) =>
        /\ last.res.tag = "Ok"
        /\ up => \A k \in Keys : acked[k] \in Values => GetView(k) = Ok(acked[k])

\* C3: reopen equivalence.  When the store is reopened after having been
\* closed, open succeeds, the rebuilt index holds exactly the keys the
\* index held at the close and every get returns what it returned then.
C3_ReopenEquivalence ==
    (last.op = "open" /\ prev.how = "close" /\ prev.clean) =>
        /\ last.res.tag = "Ok"
        /\ up => /\ DOMAIN kv.index = prev.keys
                 /\ \A k \in Keys : GetView(k) = prev.view[k]

\* A call of op just returned (it was not cut short by the death of the
\* process).
Returned(op) == nops' = nops + 1 /\ last'.op = op /\ last'.res.tag # "killed"

\* C4: compaction preserves state.  Over every compact() call, for every
\* key get returns after it what it returned before it, and uncompacted is
\* zero after it.
C4_CompactionPreservesState ==
    [][(up /\ Returned("compact")) =>
        /\ up'
        /\ \A k \in Keys : GetView(k)' = GetView(k)
        /\ kv'.uncompacted = 0]_vars

\* C5: remove-absent.  remove(k) of a key that is not in the index returns
\* NotFound ("Key not found"), appends nothing to any log file and leaves
\* the index, the uncompacted counter and the current generation (the
\* whole store) as they were.
C5_RemoveAbsent ==
    [][\A k \in Keys :
        (up /\ k \notin DOMAIN kv.index /\ Returned("remove") /\ last'.key = k) =>
            /\ last'.res = Err("NotFound")
            /\ ErrMsg(last'.res.value) = "Key not found"
            /\ disk' = disk
            /\ kv' = kv]_vars

\* remove of an absent key was called on a store whose log holds records.
C5_Witness ==
    /\ up
    /\ last.op = "remove"
    /\ last.res = Err("NotFound")
    /\ last.key \notin DOMAIN kv.index
    /\ FileLen(disk[kv.current_gen]) > 0

\* C6: a truncated tail is tolerated.  When the store is reopened after the
\* process died inside a set or remove that left a partial record at the
\* end of the last log file, open succeeds and every key that read a value
\* before that call reads the same value.
C6_TruncatedTail ==
    (last.op = "open" /\ prev.how = "crash_append" /\ prev.clean) =>
        /\ last.res.tag = "Ok"
        /\ up => \A k \in Keys : prev.view[k].value \in Values => GetView(k) = prev.view[k]

\* C7: a crash during compaction is recoverable.  When the store is
\* reopened after the process died inside compact(), open succeeds and
\* every get returns what it returned before the compaction started.
C7_CrashInCompaction ==
    (last.op = "open" /\ prev.how = "crash_compact" /\ prev.clean) =>
        /\ last.res.tag = "Ok"
        /\ up => \A k \in Keys : GetView(k) = prev.view[k]

\* C8: generation monotonicity.  current_gen never decreases while the
\* store is open nor from one store to the next on the same directory;
\* each open picks a generation strictly greater than every generation
\* file present; each compact() raises current_gen by exactly 2, and a set
\* raises it by 2 (its compaction) or leaves it.
C8_GenerationMonotonic ==
    [][/\ (up /\ up') => kv'.current_gen >= kv.current_gen
       /\ (~up /\ up') =>
            /\ kv'.current_gen > prev.gen
            /\ \A g \in DOMAIN disk : kv'.current_gen > g
       /\ (up /\ up' /\ Returned("compact")) => kv'.current_gen = kv.current_gen + 2
       /\ (up /\ up' /\ Returned("set")) =>
            kv'.current_gen \in {kv.current_gen, kv.current_gen + 2}]_vars

\* A store opened after a close was compacted: generations 1, 2, 4.
C8_Witness ==
    /\ up
    /\ prev.how = "close"
    /\ prev.gen = 1
    /\ last.op = "compact"
    /\ last.res.tag = "Ok"
    /\ kv.current_gen = 4

\* The response type handle_connection owes a request.
KindFor(op) ==
    CASE op = "get" -> "GetResponse"
      [] op = "set" -> "SetResponse"
      [] op = "remove" -> "RemoveResponse"
      [] OTHER -> "none"

\* C9: the response shape follows the request shape.  Every response the
\* server writes for a Get is a GetResponse, for a Set a SetResponse, for a
\* Remove a RemoveResponse, whether the engine call returned Ok or Err; a
\* request whose engine call returned gets exactly that one response.
C9_ResponseShape ==
    /\ last.resp # NoResponse => last.resp.kind = KindFor(last.op)
    /\ (last.op \in {"get", "set", "remove"} /\ last.res.tag \in {"Ok", "Err"}) =>
            /\ last.resp.kind = KindFor(last.op)
            /\ last.resp.variant \in {"Ok", "Err"}

\* A Remove was answered with an Err, and it is a RemoveResponse.
C9_Witness ==
    /\ last.op = "remove"
    /\ last.res = Err("NotFound")
    /\ last.resp.kind = "RemoveResponse"
    /\ last.resp.variant = "Err"

\* C10: key-not-found end to end.  A Get for a key absent from the engine
\* is answered GetResponse::Ok(None) and the client returns Ok(None); a
\* Remove for an absent key is answered RemoveResponse::Err("Key not
\* found") and the client fails with that message.
C10_KeyNotFound ==
    [][\A k \in Keys :
        (up /\ k \notin DOMAIN kv.index /\ nops' = nops + 1 /\ last'.key = k) =>
            /\ last'.op = "get" =>
                /\ last'.resp = Response("GetResponse", "Ok", NoValue)
                /\ last'.client = Ok(NoValue)
            /\ (last'.op = "remove" /\ last'.res.tag # "killed") =>
                /\ last'.resp = Response("RemoveResponse", "Err", "Key not found")
                /\ last'.client = Err("Key not found")]_vars

\* A Get for a key that was set and then removed was answered Ok(None).
C10_Witness ==
    /\ up
    /\ last.op = "get"
    /\ last.key \notin DOMAIN kv.index
    /\ last.resp = Response("GetResponse", "Ok", NoValue)
    /\ last.client = Ok(NoValue)
    /\ \E i \in 1..Len(disk[kv.current_gen]) :
          disk[kv.current_gen][i] = Doc(CmdRemove(last.key))

\* The bytes the index entry e points at.
EntryBytes(e) == ReadAt(disk[e.gen], e.pos, e.len)

\* C16: index validity.  While a store is open, for every key k of the
\* index the entry (gen, pos, len) lies inside the existing file gen.log
\* and its bytes are one complete Set record of k (the document, with or
\* without the newline set() writes after it).
C16_IndexValid ==
    up => \A k \in DOMAIN kv.index :
            /\ kv.index[k].gen \in DOMAIN disk
            /\ kv.index[k].pos + kv.index[k].len <= FileLen(disk[kv.index[k].gen])
            /\ \E v \in Values :
                  EntryBytes(kv.index[k]) \in {<<Doc(CmdSet(k, v))>>, SetBuffer(k, v)}

\* C17: scan round-trip.  In the first store of a directory (no crash, no
\* reopen: every file was produced by set and remove calls), the sequence
\* of (offset, record) the loop of load() goes through on each log file is
\* the sequence of records appended to it, each at its offset.
C17_ScanRoundTrip ==
    FirstStore => \A g \in DOMAIN disk : ScanFrom(disk[g], 1) = Appended(disk[g], 1)

\* C18: uniform length-delimited framing.  A set or remove that returns Ok
\* without compacting appends exactly the document of its record to the
\* current log file, no delimiter byte after it, and the index entry of a
\* Set has the length of that document.
C18_UniformFraming ==
    [][(up /\ up' /\ nops' = nops + 1 /\ last'.res.tag = "Ok"
           /\ kv'.current_gen = kv.current_gen) =>
        /\ last'.op = "set" =>
            /\ disk'[kv.current_gen] =
                  disk[kv.current_gen] \o <<Doc(CmdSet(last'.key, last'.value))>>
            /\ kv'.index[last'.key].len = DocLen(CmdSet(last'.key, last'.value))
        /\ last'.op = "remove" =>
            disk'[kv.current_gen] = disk[kv.current_gen] \o <<Doc(CmdRemove(last'.key))>>]_vars

\* C19: compaction trigger.  After a set returned Ok, uncompacted is
\* strictly below COMPACTION_THRESHOLD: a set that leaves the counter at or
\* over the threshold compacts (and zeroes it) before it returns.
C19_CompactionTrigger ==
    [][(up /\ Returned("set") /\ last'.res.tag = "Ok") =>
        kv'.uncompacted < COMPACTION_THRESHOLD]_vars

\* C20: remove accounting.  A remove(k) that returns Ok raises uncompacted
\* by the length of the entry the index held for k plus the length of the
\* Remove record it appended.
C20_RemoveAccounting ==
    [][\A k \in Keys :
        (up /\ Returned("remove") /\ last'.res.tag = "Ok" /\ last'.key = k) =>
            kv'.uncompacted =
                kv.uncompacted + kv.index[k].len + FileLen(RemoveBuffer(k))]_vars

\* C12: durable before response.  When the server has written an Ok
\* response to a Set, the bytes the index entry of the key points at, in
\* the log file, are the record of that Set; when it has written an Ok
\* response to a Remove, the Remove record is at the end of the current log
\* file.  The response is built from what the engine call returned, after
\* its write_all and flush.
C12_DurableBeforeResponse ==
    [][(nops' = nops + 1 /\ last'.resp.variant = "Ok") =>
        /\ last'.op = "set" =>
            /\ last'.key \in DOMAIN kv'.index
            /\ kv'.index[last'.key].gen \in DOMAIN disk'
            /\ ReadAt(disk'[kv'.index[last'.key].gen], kv'.index[last'.key].pos,
                      kv'.index[last'.key].len) = SetBuffer(last'.key, last'.value)
        /\ last'.op = "remove" =>
            disk'[kv.current_gen] = disk[kv.current_gen] \o RemoveBuffer(last'.key)]_vars

\* A Remove was answered Ok and its record ends the current log file, after
\* the record of the Set it removes.
C12_Witness ==
    /\ up
    /\ last.op = "remove"
    /\ last.resp = Response("RemoveResponse", "Ok", NoValue)
    /\ Len(disk[kv.current_gen]) >= 3
    /\ disk[kv.current_gen][Len(disk[kv.current_gen])] = Doc(CmdRemove(last.key))

\* The file f holds a record that cannot be decoded (a document cut short)
\* at a position strictly before the position of its last record.
CorruptBeforeEnd(f) ==
    \E i \in 1..Len(f) :
        /\ f[i].t = "doc"
        /\ ~IsWholeDoc(f[i])
        /\ \E j \in (i + 1)..Len(f) : f[j].t = "doc"

\* C15: a corrupt record before the end of a log aborts recovery.  When
\* open has run on a directory one of whose log files holds an undecodable
\* record before its last record, it returned an error and there is no
\* store.
C15_CorruptAbortsOpen ==
    (last.op = "open" /\ \E g \in DOMAIN disk : CorruptBeforeEnd(disk[g])) =>
        /\ last.res.tag = "Err"
        /\ ~up

\* The connection id waits at the listener or in handle_connection.
Waiting(id) ==
    \/ \E i \in 1..Len(srv.backlog) : srv.backlog[i].id = id
    \/ \E c \in srv.inflight : c.id = id

\* The loop is through with the connection id.
Finished(id) == \E i \in 1..Len(srv.done) : srv.done[i].id = id

\* The step ends a connection with the failure fate.
Fails(fate) ==
    /\ Len(srv'.done) = Len(srv.done) + 1
    /\ srv'.done[Len(srv'.done)].fate = fate

\* C11: the server survives per-connection failures.  A step in which
\* accepting a connection fails, a request cannot be decoded or the write
\* of the response fails logs one error, leaves the loop of run running
\* with no connection in hand, leaves the engine as it was (accept and
\* decode failures) or as the completed engine call left it (write
\* failure); and every connection that waits is eventually finished, so
\* the loop goes on to the next connection after a failure.
C11_SurvivesConnectionFailures ==
    /\ [][((Fails("accept_err") \/ Fails("decode_err") \/ Fails("write_err")) =>
               /\ srv'.running /\ up'
               /\ srv'.logged = srv.logged + 1
               /\ srv'.inflight = {}
               /\ IF Fails("write_err")
                  THEN /\ kv' = EngineCall(kv, disk, srv'.done[Len(srv'.done)].req).kv
                       /\ disk' = EngineCall(kv, disk, srv'.done[Len(srv'.done)].req).disk
                  ELSE /\ kv' = kv
                       /\ disk' = disk)]_vars
    /\ \A id \in 1..MaxConns : Waiting(id) ~> Finished(id)

\* The write of the response of Set a 1 failed, a request that could not
\* be decoded came next, and the connection after them was served: its Get
\* returned the value the failed connection had set.
C11_Witness ==
    /\ srv.running
    /\ Len(srv.done) = 3
    /\ srv.done[1].fate = "write_err" /\ srv.done[1].req = Request("Set", "a", "1")
    /\ srv.done[2].fate = "decode_err"
    /\ srv.done[3].fate = "ok" /\ srv.done[3].req = Request("Get", "a", NoValue)
    /\ srv.done[3].result = Ok("1")
    /\ srv.logged = 2

\* The serial execution of the connections accepted so far, the one in
\* handle_connection left out, from the store the server started on.
SerialNow ==
    SerialRun(srv.accepted, 1,
              [kv |-> open(EmptyMap).kv, disk |-> open(EmptyMap).disk, results |-> <<>>],
              srv.inflight)

\* C13: sequential service.  At most one connection is in
\* handle_connection at any instant, and the store, the directory and the
\* result every served client observed are those of executing the requests
\* one after another in the order the connections were accepted.
C13_SequentialService ==
    /\ Cardinality(srv.inflight) <= 1
    /\ srv.running =>
        /\ kv = SerialNow.kv
        /\ disk = SerialNow.disk
        /\ \A i \in 1..Len(srv.done) :
              srv.done[i].fate = "ok" =>
                  \E n \in 1..Len(SerialNow.results) :
                      /\ SerialNow.results[n].id = srv.done[i].id
                      /\ SerialNow.results[n].result = srv.done[i].result

\* Three clients were connected at once: Set a 1 has been served, the Get
\* of the second is in handle_connection, the Set a 2 of the third waits
\* at the listener.
C13_Witness ==
    /\ Len(srv.done) = 1
    /\ srv.done[1].fate = "ok" /\ srv.done[1].req = Request("Set", "a", "1")
    /\ srv.inflight = {Conn(2, Request("Get", "a", NoValue))}
    /\ srv.backlog = <<Conn(3, Request("Set", "a", "2"))>>
    /\ srv.arrived = 3

\* The engine file names a flavor other than the configured one.
NamesOtherFlavor(b) ==
    /\ b.file \in {EngineDisplay(e) : e \in Engines}
    /\ b.file # EngineDisplay(b.cli_engine)

\* C14: engine marker check.  While the engine file names a flavor other
\* than the configured one, no engine is opened and the listener is not
\* bound, and once main is past the check the process has exited with a
\* failure; and the check on a directory with no engine file writes the
\* configured flavor to the file and goes on to open that engine.
C14_EngineMarkerCheck ==
    /\ [](NamesOtherFlavor(boot) =>
            /\ boot.opened = "none" /\ ~up
            /\ ~boot.bound /\ ~srv.running
            /\ boot.pc \notin {"start", "parsed"} =>
                  (boot.pc = "exit" /\ boot.status = "failure"))
    /\ [][(boot.pc = "parsed" /\ boot.file = NoFile) =>
            /\ boot'.file = EngineDisplay(boot.cli_engine)
            /\ boot'.engine = boot.cli_engine
            /\ boot'.pc = "checked"
            /\ boot'.status = "none"]_vars
    /\ [][(boot.pc = "checked" /\ boot'.opened # "none") =>
            boot'.opened = boot.cli_engine]_vars

\* A server configured with kvs and a valid address found an engine file
\* holding sled, and has exited with a failure at the check.
C14_Witness ==
    /\ boot.cli_engine = "Kvs"
    /\ boot.file = "sled"
    /\ boot.addr_ok
    /\ boot.pc = "exit"
    /\ boot.status = "failure"
    /\ disk \in FoundDirs

\* Bytes in the log files of the directory dir, over the generations gens.
RECURSIVE LogBytes(_, _)
LogBytes(dir, gens) ==
    IF gens = {} THEN 0
    ELSE FileLen(dir[MinOf(gens)]) + LogBytes(dir, gens \ {MinOf(gens)})

\* Bytes inside the ranges the entries of the index reference, over keys.
RECURSIVE IndexedBytes(_, _)
IndexedBytes(index, keys) ==
    IF keys = {} THEN 0
    ELSE index[CHOOSE k \in keys : TRUE].len
         + IndexedBytes(index, keys \ {CHOOSE k \in keys : TRUE})

\* Bytes of the log files that no index entry references (the entries of
\* the first store of a directory lie inside the files and do not overlap).
StaleBytes == LogBytes(disk, DOMAIN disk) - IndexedBytes(kv.index, DOMAIN kv.index)

\* C21: uncompacted is an upper bound on stale bytes.  In the first store
\* of a directory (every byte of the logs was written since its open or
\* its last compaction) uncompacted is at least the number of bytes of the
\* log files that lie in no range the index references.
C21_UncompactedBoundsStale == FirstStore => kv.uncompacted >= StaleBytes

\* The file f holds, from offset pos on, one Set record for each key of the
\* index from the i-th key of KeySeq on, in that order and with nothing
\* between or after them, and each entry is the range of its record in
\* generation gen.
RECURSIVE PackedFrom(_, _, _, _, _)
PackedFrom(index, f, gen, i, pos) ==
    IF i > Len(KeySeq) THEN pos = FileLen(f)
    ELSE IF KeySeq[i] \notin DOMAIN index THEN PackedFrom(index, f, gen, i + 1, pos)
    ELSE /\ index[KeySeq[i]].gen = gen
         /\ index[KeySeq[i]].pos = pos
         /\ \E v \in Values :
               ReadAt(f, pos, index[KeySeq[i]].len)
                   \in {<<Doc(CmdSet(KeySeq[i], v))>>, SetBuffer(KeySeq[i], v)}
         /\ PackedFrom(index, f, gen, i + 1, pos + index[KeySeq[i]].len)

\* Every store of the directory so far was closed between two calls: no
\* process died inside a call.
NoCrashYet == prev.clean /\ prev.how \in {"none", "close"}

\* C22: post-compaction layout.  In a directory no process died on, when
\* compact() started with current_gen G returns Ok, current_gen is G + 2, (G+2).log is empty and the writer is
\* at its start, (G+1).log holds exactly one record per index key, in key
\* order and contiguous from offset 0, every index entry being the range
\* of its record in generation G + 1, no file of a generation below G + 1
\* is left, and the read handles are those of G + 1 and G + 2.
C22_PostCompactionLayout ==
    [][(up /\ NoCrashYet /\ Returned("compact") /\ last'.res.tag = "Ok") =>
        /\ kv'.current_gen = kv.current_gen + 2
        /\ kv.current_gen + 2 \in DOMAIN disk'
        /\ disk'[kv.current_gen + 2] = <<>>
        /\ kv'.writer_pos = 0
        /\ kv.current_gen + 1 \in DOMAIN disk'
        /\ PackedFrom(kv'.index, disk'[kv.current_gen + 1], kv.current_gen + 1, 1, 0)
        /\ \A g \in DOMAIN disk' : g >= kv.current_gen + 1
        /\ DOMAIN kv'.readers = {kv.current_gen + 1, kv.current_gen + 2}]_vars

\* The position the read handle r tracks is where its cursor is.
Accurate(r) == r.pos = r.cur

\* C23: read-handle position accuracy.  In a directory no process died on,
\* when compact() is called, every read handle its copy loop will compare
\* with the offset of a record (the handle of the generation of an index
\* entry, handles of files scanned by open included) tracks the position
\* its cursor is at, so that a skipped seek reads the record's own bytes.
C23_ReadHandlePosition ==
    [][(up /\ NoCrashYet /\ nops' = nops + 1 /\ last'.op = "compact") =>
        \A k \in DOMAIN kv.index :
            kv.index[k].gen \in DOMAIN kv.readers =>
                Accurate(kv.readers[kv.index[k].gen])]_vars

\* C24: no panic at the engine boundary.  In a directory written only by
\* open, set, remove, compact and reopen (no process died inside a call),
\* every call of get, set, remove and compact returns Ok or Err: none
\* panics, and a get whose index entry points at bytes that hold no Set
\* record returns an error.
C24_NoPanic ==
    [][(up /\ NoCrashYet /\ nops' = nops + 1 /\ last'.res.tag # "killed") =>
        /\ last'.res.tag \in {"Ok", "Err"}
        /\ up']_vars

\* Engine calls made for the streams i.. of the sequence ss.
RECURSIVE CallsOf(_, _)
CallsOf(ss, i) == IF i > Len(ss) THEN 0 ELSE ss[i].calls + CallsOf(ss, i + 1)

\* One request, one engine call after it, one response after that on the
\* stream c; once handle_connection has returned the stream is closed and
\* the counts are those of its fate.
OneRoundTrip(c) ==
    /\ c.decoded <= 1
    /\ c.calls <= c.decoded
    /\ c.written <= c.calls
    /\ c.pc = "returned" =>
        /\ ~c.open
        /\ c.fate = "ok" => (c.decoded = 1 /\ c.calls = 1 /\ c.written = 1)
        /\ c.fate = "write_err" => (c.decoded = 1 /\ c.calls = 1 /\ c.written = 0)
        /\ c.fate = "decode_err" => (c.decoded = 0 /\ c.calls = 0 /\ c.written = 0)

C26_ReaderForLiveGen ==
    up => \A k \in DOMAIN kv.index :
            /\ kv.index[k].gen \in DOMAIN kv.readers
            /\ kv.index[k].gen \in DOMAIN disk

\* compact() has just returned Ok on a store with a key: the generation the
\* key was written to is deleted and its handle gone, the entry references
\* the compaction generation.
C26_Witness ==
    /\ up
    /\ last.op = "compact" /\ last.res.tag = "Ok"
    /\ "a" \in DOMAIN kv.index
    /\ kv.index["a"].gen = kv.current_gen - 1
    /\ kv.index["a"].len > 0
    /\ 1 \notin DOMAIN disk
    /\ 1 \notin DOMAIN kv.readers

\* The file g is a prefix of what f holds.
IsPrefix(g, f) == Len(g) <= Len(f) /\ SubSeq(f, 1, Len(g)) = g

\* The file f starts with a whole Set record of the key k.
StartsWithSet(f, k) ==
    \E v \in Values : Len(f) >= 2 /\ SubSeq(f, 1, 2) = SetBuffer(k, v)

\* C27: the append target is the newest generation.  While a store is open
\* current_gen is the largest generation with a file in the directory; a
\* set or remove that returns without compacting only appends to
\* current_gen.log and leaves every other file (the compaction generation
\* below it included) as it was, and the entry of a key set refers to
\* current_gen, the generation a later open replays last: no generation
\* above the one an index entry refers to starts with a Set record of its
\* key.
C27_AppendTargetNewest ==
    /\ [](up => /\ kv.current_gen = MaxOf(DOMAIN disk)
                /\ \A k \in DOMAIN kv.index : \A g \in DOMAIN disk :
                      g > kv.index[k].gen => ~StartsWithSet(disk[g], k))
    /\ [][(up /\ (Returned("set") \/ Returned("remove"))
              /\ up' /\ kv'.current_gen = kv.current_gen) =>
            /\ DOMAIN disk' = DOMAIN disk
            /\ \A g \in DOMAIN disk \ {kv.current_gen} : disk'[g] = disk[g]
            /\ IsPrefix(disk[kv.current_gen], disk'[kv.current_gen])
            /\ (last'.op = "set" /\ last'.res.tag = "Ok") =>
                  kv'.index[last'.key].gen = MaxOf(DOMAIN disk')]_vars

\* A set after a compaction: key a lives in the compaction generation, the
\* record of key b just written in the generation above it.
C27_Witness ==
    /\ up
    /\ last.op = "set" /\ last.res.tag = "Ok" /\ last.key = "b"
    /\ DOMAIN kv.index = {"a", "b"}
    /\ kv.index["a"].gen = kv.current_gen - 1
    /\ kv.index["a"].len > 0
    /\ kv.index["b"].gen = kv.current_gen
    /\ DOMAIN disk = {kv.current_gen - 1, kv.current_gen}

====
